---- MODULE Spec2Model ----
(***************************************************************************)
(* A model of ncm2mp3.py: the NCM container decoder (decrypt_ncm), the     *)
(* single-file conversion (convert_ncm_to_mp3) and the batch loop (main).  *)
(*                                                                         *)
(* Bytes are the integers 0..255; a byte string is a sequence of bytes.    *)
(* Offsets are 0-based as in the Python source; Slice(s, a, b) is s[a:b].  *)
(***************************************************************************)
EXTENDS Integers, Sequences, FiniteSets, TLC

(***************************************************************************)
(* Bounds of the model.                                                    *)
(***************************************************************************)
\* Longest stream-cipher key drawn for the well-formed key boxes.
MaxKeyLen == 2
\* Longest audio payload drawn for the well-formed containers.
MaxAudioLen == 3
\* Longest batch of files handed to main's loop.
MaxFiles == 2

(***************************************************************************)
(* Constants of the program (ncm2mp3.py lines 26-30).                      *)
(***************************************************************************)
\* b'CTENFDAM'
MAGIC_HEADER == <<67, 84, 69, 78, 70, 68, 65, 77>>
\* b'hzHRAmso5kInbaxW'
AES_KEY == <<104, 122, 72, 82, 65, 109, 115, 111, 53, 107, 73, 110, 98, 97, 120, 87>>
META_XOR_KEY == 99
KEY_XOR_KEY == 100
\* b'neteasecloudmusic'
HEADER == <<110, 101, 116, 101, 97, 115, 101, 99, 108, 111, 117, 100, 109, 117, 115, 105, 99>>
\* AES.block_size
BlockSize == 16
\* ARC4.key_size is range(1, 257): the longest key ARC4.new accepts.
ARC4MaxKey == 256

(***************************************************************************)
(* Python's bytes operations.                                              *)
(***************************************************************************)
Min(a, b) == IF a < b THEN a ELSE b

\* s[a:b] for 0 <= a, with the end clamped to len(s) as Python does.
Slice(s, a, b) ==
  LET e == Min(b, Len(s))
  IN IF a >= e THEN <<>> ELSE SubSeq(s, a + 1, e)

\* s[a:]
SliceFrom(s, a) == Slice(s, a, Len(s))

\* bytes([b]) * n
Repeat(b, n) == [i \in 1..n |-> b]

\* s.startswith(p)
StartsWith(s, p) == Len(s) >= Len(p) /\ SubSeq(s, 1, Len(p)) = p

\* The offsets at which p occurs in s.
Occurrences(s, p) ==
  {i \in 0..(Len(s) - Len(p)) : SubSeq(s, i + 1, i + Len(p)) = p}

\* p in s
Contains(s, p) == Occurrences(s, p) # {}

\* s.find(p): the lowest offset of p in s, or -1.
Find(s, p) ==
  IF Occurrences(s, p) = {} THEN -1
  ELSE CHOOSE i \in Occurrences(s, p) : \A j \in Occurrences(s, p) : i <= j

\* s.rfind(p): the highest offset of p in s, or -1.
RFind(s, p) ==
  IF Occurrences(s, p) = {} THEN -1
  ELSE CHOOSE i \in Occurrences(s, p) : \A j \in Occurrences(s, p) : i >= j

\* s.lstrip(b'\x00')
LStripZero(s) ==
  LET nz == {i \in 1..Len(s) : s[i] # 0}
  IN IF nz = {} THEN <<>>
     ELSE SubSeq(s, CHOOSE i \in nz : \A j \in nz : i <= j, Len(s))

\* s.rstrip(b'\x00')
RStripZero(s) ==
  LET nz == {i \in 1..Len(s) : s[i] # 0}
  IN IF nz = {} THEN <<>>
     ELSE SubSeq(s, 1, CHOOSE i \in nz : \A j \in nz : i >= j)

\* s.strip(b'\x00')
StripZero(s) == RStripZero(LStripZero(s))

\* s.ljust(n, b'\x00')
LJustZero(s, n) == IF Len(s) >= n THEN s ELSE s \o Repeat(0, n - Len(s))

\* a ^ b on non-negative integers.
RECURSIVE BitXor(_, _)
BitXor(a, b) ==
  IF a = 0 THEN b
  ELSE IF b = 0 THEN a
  ELSE 2 * BitXor(a \div 2, b \div 2) + ((a + b) % 2)

\* bytes([b ^ k for b in s])
XorMask(s, k) == [i \in 1..Len(s) |-> BitXor(s[i], k)]

\* struct.pack('<I', n)
PackU32(n) ==
  <<n % 256, (n \div 256) % 256, (n \div 65536) % 256, (n \div 16777216) % 256>>

\* struct.unpack('<I', s)[0]; struct.error unless s holds exactly 4 bytes.
UnpackU32(s) ==
  IF Len(s) # 4 THEN [ok |-> FALSE, val |-> 0]
  ELSE [ok |-> TRUE,
        val |-> s[1] + 256 * s[2] + 65536 * s[3] + 16777216 * s[4]]

(***************************************************************************)
(* Crypto.Cipher.AES in ECB mode.  The library is not part of the          *)
(* repository; the model keeps what ECB guarantees: the data is cut into   *)
(* 16-byte blocks and each block goes through one and the same keyed       *)
(* bijection, whose inverse is encryption.  The bijection used here        *)
(* reverses the block and adds the key bytes.                              *)
(***************************************************************************)
AESEncryptBlock(p) ==
  [i \in 1..BlockSize |-> (p[BlockSize + 1 - i] + AES_KEY[i]) % 256]

AESDecryptBlock(c) ==
  [i \in 1..BlockSize |->
     (c[BlockSize + 1 - i] + 256 - AES_KEY[BlockSize + 1 - i]) % 256]

\* ECB: byte i of the result comes from the block that holds byte i of s
\* (len(s) a multiple of 16), each block going through the same bijection.
ECBBlocks(s, encrypt) ==
  [i \in 1..Len(s) |->
     LET first == ((i - 1) \div BlockSize) * BlockSize + 1
         block == SubSeq(s, first, first + BlockSize - 1)
     IN IF encrypt THEN AESEncryptBlock(block)[i - first + 1]
        ELSE AESDecryptBlock(block)[i - first + 1]]

\* AES.new(AES_KEY, AES.MODE_ECB).decrypt(s); ValueError unless aligned.
AESDecrypt(s) ==
  IF Len(s) % BlockSize # 0 THEN [ok |-> FALSE, val |-> <<>>]
  ELSE [ok |-> TRUE, val |-> ECBBlocks(s, FALSE)]

\* AES.new(AES_KEY, AES.MODE_ECB).encrypt(s), for the containers of the model.
AESEncrypt(s) == ECBBlocks(s, TRUE)

\* Crypto.Util.Padding.pad(s, 16): PKCS#7, a full block when aligned.
Pkcs7Pad(s) ==
  LET n == BlockSize - (Len(s) % BlockSize) IN s \o Repeat(n, n)

\* Crypto.Util.Padding.unpad(s, 16); ValueError on a malformed padding.
Unpad(s) ==
  IF Len(s) = 0 \/ Len(s) % BlockSize # 0 THEN [ok |-> FALSE, val |-> <<>>]
  ELSE LET n == s[Len(s)]
       IN IF n < 1 \/ n > Min(BlockSize, Len(s)) THEN [ok |-> FALSE, val |-> <<>>]
          ELSE IF SubSeq(s, Len(s) - n + 1, Len(s)) # Repeat(n, n)
               THEN [ok |-> FALSE, val |-> <<>>]
               ELSE [ok |-> TRUE, val |-> SubSeq(s, 1, Len(s) - n)]

(***************************************************************************)
(* Key Unlock: decrypt_ncm lines 113-223.                                  *)
(***************************************************************************)
\* The padding strategies of lines 117-124, in the order they are tried.
PadStrategy(i, data) ==
  CASE i = 1 -> IF Len(data) % BlockSize # 0
                THEN data \o Repeat(BlockSize - (Len(data) % BlockSize),
                                    BlockSize - (Len(data) % BlockSize))
                ELSE data
    [] i = 2 -> LJustZero(data, ((Len(data) + 15) \div BlockSize) * BlockSize)
    [] OTHER -> data

\* Line 137: the test a strategy's plaintext must pass to be kept.
KeyCandidateOk(temp_key) ==
  Contains(temp_key, HEADER) \/ Len(StripZero(temp_key)) >= 16

\* Lines 127-146, from strategy i on: the first strategy whose padded input
\* is aligned and whose plaintext passes the test, or 0 and no plaintext.
RECURSIVE TryStrategies(_, _)
TryStrategies(i, encrypted_key) ==
  IF i > 3 THEN [strategy |-> 0, key |-> <<>>]
  ELSE LET padded_key == PadStrategy(i, encrypted_key)
       IN IF Len(padded_key) % BlockSize # 0
          THEN TryStrategies(i + 1, encrypted_key)
          ELSE LET temp_key == AESDecrypt(padded_key).val
               IN IF KeyCandidateOk(temp_key)
                  THEN [strategy |-> i, key |-> temp_key]
                  ELSE TryStrategies(i + 1, encrypted_key)

\* Lines 147-156: the strategy found, or the fallback (strategy 0) that
\* pads with PKCS#7 bytes and decrypts without any test.
KeyBoxFallback(encrypted_key, found) ==
  IF found.strategy # 0 THEN found
  ELSE LET padding_length == BlockSize - (Len(encrypted_key) % BlockSize)
       IN [strategy |-> 0,
           key |-> AESDecrypt(IF padding_length # BlockSize
                              THEN encrypted_key
                                     \o Repeat(padding_length, padding_length)
                              ELSE encrypted_key).val]

\* Lines 126-156: the plaintext of the key box.
DecryptKeyBox(encrypted_key) ==
  KeyBoxFallback(encrypted_key, TryStrategies(1, encrypted_key))

\* A faulty variant of Latin1Decode, for the check of the later marker
\* searches: a decoding that folds capitals to small letters.
CaseFoldingDecode(s) ==
  [i \in 1..Len(s) |-> IF s[i] >= 65 /\ s[i] <= 90 THEN s[i] + 32 ELSE s[i]]

\* key.decode('latin-1', errors='ignore'): each byte is the code point of the
\* same number; no byte is invalid in latin-1, so nothing is ignored.
Latin1Decode(s) == [i \in 1..Len(s) |-> s[i]]

\* HEADER.decode('utf-8'): the marker is ASCII, one code point per byte.
HeaderText == [i \in 1..Len(HEADER) |-> HEADER[i]]

\* Lines 193-200: the least padding in 0..7 such that that many zero bytes
\* followed by the marker occur in key, or -1.
PaddedHeaderSearch(key) ==
  LET hits == {n \in 0..7 : Contains(key, Repeat(0, n) \o HEADER)}
  IN IF hits = {} THEN -1 ELSE CHOOSE n \in hits : \A m \in hits : n <= m

\* A faulty variant of SearchHeader, for the check of the minimum-length
\* fallback: a plaintext of exactly 16 bytes is refused.
SearchHeaderOffByOne(key) ==
  LET scan == Find(key, HEADER)
  IN IF StartsWith(key, HEADER)
       THEN [ok |-> TRUE, key |-> key, path |-> "at_start"]
     ELSE IF scan # -1
       THEN [ok |-> TRUE, key |-> SliceFrom(key, scan + Len(HEADER)),
             path |-> "scan"]
     ELSE IF Len(LStripZero(key)) > 16
       THEN [ok |-> TRUE, key |-> LStripZero(key), path |-> "fallback"]
     ELSE [ok |-> FALSE, key |-> LStripZero(key), path |-> "none"]

\* Lines 162-216: the marker search on the key left by line 160.  path names
\* the branch that produced the key.
SearchHeader(key) ==
  LET scan == Find(key, HEADER)
      header_pos == Find(Latin1Decode(key), HeaderText)
      null_terminated_header == HEADER \o <<0>>
      padding == PaddedHeaderSearch(key)
  IN IF StartsWith(key, HEADER)
       THEN [ok |-> TRUE, key |-> key, path |-> "at_start"]
     ELSE IF scan # -1
       THEN [ok |-> TRUE, key |-> SliceFrom(key, scan + Len(HEADER)),
             path |-> "scan"]
     ELSE IF header_pos # -1
       THEN [ok |-> TRUE, key |-> SliceFrom(key, header_pos + Len(HEADER)),
             path |-> "string"]
     ELSE IF Contains(key, null_terminated_header)
       THEN [ok |-> TRUE,
             key |-> SliceFrom(key, Find(key, null_terminated_header)
                                      + Len(null_terminated_header)),
             path |-> "null_terminated"]
     ELSE IF padding # -1
       THEN [ok |-> TRUE,
             key |-> SliceFrom(key, Find(key, Repeat(0, padding) \o HEADER)
                                      + padding + Len(HEADER)),
             path |-> "padded"]
     ELSE IF Len(LStripZero(key)) >= 16
       THEN [ok |-> TRUE, key |-> LStripZero(key), path |-> "fallback"]
     ELSE [ok |-> FALSE, key |-> LStripZero(key), path |-> "none"]

\* Lines 160-216: the leading zero bytes go, then the marker search.
LocateHeader(decrypted_key) == SearchHeader(LStripZero(decrypted_key))

\* The messages of the ValueErrors Key Unlock raises (lines 216 and 223).
InvalidKeyHeader == "Invalid key header"

EmptyKey == "Decrypted key is empty"

\* A faulty variant of CheckKey, for the check of the empty-key guard: the
\* test of line 222 is left out.
CheckKeyAllowsEmpty(box, located, key) ==
  IF ~located.ok
    THEN [ok |-> FALSE, key |-> <<>>, err |-> InvalidKeyHeader,
          strategy |-> box.strategy, path |-> located.path]
  ELSE [ok |-> TRUE, key |-> key, err |-> "",
        strategy |-> box.strategy, path |-> located.path]

\* Lines 216-223: the two ValueErrors, or the key.
CheckKey(box, located, key) ==
  IF ~located.ok
    THEN [ok |-> FALSE, key |-> <<>>, err |-> InvalidKeyHeader,
          strategy |-> box.strategy, path |-> located.path]
  ELSE IF key = <<>>
    THEN [ok |-> FALSE, key |-> <<>>, err |-> EmptyKey,
          strategy |-> box.strategy, path |-> located.path]
  ELSE [ok |-> TRUE, key |-> key, err |-> "",
        strategy |-> box.strategy, path |-> located.path]

\* Line 219: the trailing zero bytes go.
StripKey(box, located) == CheckKey(box, located, RStripZero(located.key))

\* Lines 158-223, on the plaintext of the key box.
UnlockKeyBox(box) == StripKey(box, LocateHeader(box.key))

\* Lines 113-223: XOR-unmask, block decryption, marker search, trailing
\* zero strip and the empty-key check.
KeyUnlock(encrypted_key) ==
  UnlockKeyBox(DecryptKeyBox(XorMask(encrypted_key, KEY_XOR_KEY)))

(***************************************************************************)
(* base64.b64decode(s): binascii.a2b_base64 in its default, non-strict     *)
(* mode.  Bytes outside the alphabet are skipped, a pad sequence that      *)
(* completes a quad ends the decoding, and binascii.Error is raised when   *)
(* the data characters do not fill their last quad.                        *)
(***************************************************************************)
\* table_a2b_base64: the 6-bit value of an alphabet byte, 64 for any other.
B64Value(ch) ==
  IF ch >= 65 /\ ch <= 90 THEN ch - 65
  ELSE IF ch >= 97 /\ ch <= 122 THEN ch - 71
  ELSE IF ch >= 48 /\ ch <= 57 THEN ch + 4
  ELSE IF ch = 43 THEN 62
  ELSE IF ch = 47 THEN 63
  ELSE 64

\* One byte through the decoder's loop.  The state is [quad_pos, leftchar,
\* pads, out, done]; done is set by the pad sequence that completes a quad.
A2bStep(st, ch) ==
  IF st.done THEN st
  ELSE IF ch = 61
    THEN IF st.quad_pos >= 2 /\ st.quad_pos + st.pads + 1 >= 4
           THEN [st EXCEPT !.done = TRUE]
         ELSE [st EXCEPT !.pads = IF st.quad_pos >= 2 THEN @ + 1 ELSE @]
  ELSE IF B64Value(ch) >= 64 THEN st
  ELSE CASE st.quad_pos = 0 ->
              [st EXCEPT !.quad_pos = 1, !.leftchar = B64Value(ch), !.pads = 0]
         [] st.quad_pos = 1 ->
              [st EXCEPT !.quad_pos = 2, !.leftchar = B64Value(ch) % 16,
                         !.pads = 0,
                         !.out = Append(@, (st.leftchar * 4
                                              + B64Value(ch) \div 16) % 256)]
         [] st.quad_pos = 2 ->
              [st EXCEPT !.quad_pos = 3, !.leftchar = B64Value(ch) % 4,
                         !.pads = 0,
                         !.out = Append(@, (st.leftchar * 16
                                              + B64Value(ch) \div 4) % 256)]
         [] OTHER ->
              [st EXCEPT !.quad_pos = 0, !.leftchar = 0, !.pads = 0,
                         !.out = Append(@, (st.leftchar * 64
                                              + B64Value(ch)) % 256)]

\* The loop over the bytes lo..hi of s, in order.  The range is halved so
\* that the evaluation stays shallow; the test on left.quad_pos makes the
\* first half's result be computed before the second half starts.
RECURSIVE A2bLoop(_, _, _, _)
A2bLoop(s, st, lo, hi) ==
  IF lo > hi THEN st
  ELSE IF lo = hi THEN A2bStep(st, s[lo])
  ELSE LET left == A2bLoop(s, st, lo, (lo + hi) \div 2)
       IN IF left.quad_pos >= 0 THEN A2bLoop(s, left, (lo + hi) \div 2 + 1, hi)
          ELSE left

\* The end of a2b_base64: an unfinished quad is an error.
A2bEnd(st) ==
  IF st.done THEN [ok |-> TRUE, val |-> st.out]
  ELSE [ok |-> st.quad_pos = 0, val |-> IF st.quad_pos = 0 THEN st.out ELSE <<>>]

B64Decode(s) ==
  A2bEnd(A2bLoop(s, [quad_pos |-> 0, leftchar |-> 0, pads |-> 0, out |-> <<>>,
                     done |-> FALSE], 1, Len(s)))

\* The base64 alphabet byte of a 6-bit value.
B64Char(v) ==
  IF v < 26 THEN v + 65
  ELSE IF v < 52 THEN v + 71
  ELSE IF v < 62 THEN v - 4
  ELSE IF v = 62 THEN 43
  ELSE 47

\* The quad of one group of up to three bytes.
B64Quad(s) ==
  IF Len(s) = 1
    THEN <<B64Char(s[1] \div 4), B64Char((s[1] % 4) * 16), 61, 61>>
  ELSE IF Len(s) = 2
    THEN <<B64Char(s[1] \div 4), B64Char((s[1] % 4) * 16 + s[2] \div 16),
           B64Char((s[2] % 16) * 4), 61>>
  ELSE <<B64Char(s[1] \div 4), B64Char((s[1] % 4) * 16 + s[2] \div 16),
         B64Char((s[2] % 16) * 4 + s[3] \div 64), B64Char(s[3] % 64)>>

\* base64.b64encode(s), for the containers of the model: the quads of the
\* groups, the groups being halved for a shallow evaluation.
RECURSIVE B64Encode(_)
B64Encode(s) ==
  IF Len(s) = 0 THEN <<>>
  ELSE IF Len(s) <= 3 THEN B64Quad(s)
  ELSE LET half == 3 * (((Len(s) + 2) \div 3) \div 2)
       IN B64Encode(SubSeq(s, 1, half)) \o B64Encode(SubSeq(s, half + 1, Len(s)))

(***************************************************************************)
(* bytes.decode('utf-8') and str.encode('utf-8').  A str is a sequence of  *)
(* code points.  With ignore, the bytes of a malformed sequence are        *)
(* dropped as CPython's decoder drops them; without, they raise            *)
(* UnicodeDecodeError.                                                     *)
(***************************************************************************)
IsContinuation(b) == b >= 128 /\ b <= 191

\* One step of the decoder at 1-based position i: n is the number of bytes
\* consumed; bad tells whether they are a malformed sequence.
Utf8Step(s, i) ==
  LET ch == s[i]
      left == Len(s) - i + 1
      ch2 == s[i + 1]
      ch3 == s[i + 2]
      ch4 == s[i + 3]
      badSecond3 == ~IsContinuation(ch2) \/ (ch = 224 /\ ch2 < 160)
                      \/ (ch = 237 /\ ch2 >= 160)
      badSecond4 == ~IsContinuation(ch2) \/ (ch = 240 /\ ch2 < 144)
                      \/ (ch = 244 /\ ch2 >= 144)
  IN IF ch < 128 THEN [bad |-> FALSE, n |-> 1, cp |-> ch]
     ELSE IF ch < 194 \/ ch > 244 THEN [bad |-> TRUE, n |-> 1, cp |-> 0]
     ELSE IF ch < 224
       THEN IF left < 2 THEN [bad |-> TRUE, n |-> left, cp |-> 0]
            ELSE IF ~IsContinuation(ch2) THEN [bad |-> TRUE, n |-> 1, cp |-> 0]
            ELSE [bad |-> FALSE, n |-> 2, cp |-> (ch - 192) * 64 + (ch2 - 128)]
     ELSE IF ch < 240
       THEN IF left < 2 THEN [bad |-> TRUE, n |-> left, cp |-> 0]
            ELSE IF badSecond3 THEN [bad |-> TRUE, n |-> 1, cp |-> 0]
            ELSE IF left < 3 THEN [bad |-> TRUE, n |-> left, cp |-> 0]
            ELSE IF ~IsContinuation(ch3) THEN [bad |-> TRUE, n |-> 2, cp |-> 0]
            ELSE [bad |-> FALSE, n |-> 3,
                  cp |-> (ch - 224) * 4096 + (ch2 - 128) * 64 + (ch3 - 128)]
     ELSE IF left < 2 THEN [bad |-> TRUE, n |-> left, cp |-> 0]
     ELSE IF badSecond4 THEN [bad |-> TRUE, n |-> 1, cp |-> 0]
     ELSE IF left < 3 THEN [bad |-> TRUE, n |-> left, cp |-> 0]
     ELSE IF ~IsContinuation(ch3) THEN [bad |-> TRUE, n |-> 2, cp |-> 0]
     ELSE IF left < 4 THEN [bad |-> TRUE, n |-> left, cp |-> 0]
     ELSE IF ~IsContinuation(ch4) THEN [bad |-> TRUE, n |-> 3, cp |-> 0]
     ELSE [bad |-> FALSE, n |-> 4,
           cp |-> (ch - 240) * 262144 + (ch2 - 128) * 4096
                    + (ch3 - 128) * 64 + (ch4 - 128)]

\* The decoder at position i.  The state is [next, out, ok]: the position of
\* the next byte to decode, the code points so far, and whether no error was
\* raised.  The bytes a sequence consumed are passed over.
Utf8At(s, st, i, ignore) ==
  IF ~st.ok \/ i < st.next THEN st
  ELSE LET u == Utf8Step(s, i)
       IN IF ~u.bad
            THEN [st EXCEPT !.next = i + u.n, !.out = Append(@, u.cp)]
          ELSE IF ignore THEN [st EXCEPT !.next = i + u.n]
          ELSE [st EXCEPT !.ok = FALSE, !.out = <<>>]

\* The decoder over the positions lo..hi, halved as in A2bLoop.
RECURSIVE Utf8Loop(_, _, _, _, _)
Utf8Loop(s, st, lo, hi, ignore) ==
  IF lo > hi THEN st
  ELSE IF lo = hi THEN Utf8At(s, st, lo, ignore)
  ELSE LET left == Utf8Loop(s, st, lo, (lo + hi) \div 2, ignore)
       IN IF left.next >= 0
            THEN Utf8Loop(s, left, (lo + hi) \div 2 + 1, hi, ignore)
          ELSE left

Utf8End(st) == [ok |-> st.ok, val |-> st.out]

\* s.decode('utf-8', errors='ignore') when ignore, s.decode('utf-8') otherwise.
Utf8Decode(s, ignore) ==
  Utf8End(Utf8Loop(s, [next |-> 1, out |-> <<>>, ok |-> TRUE], 1, Len(s), ignore))

\* The UTF-8 bytes of one code point.
Utf8Bytes(cp) ==
  IF cp < 128 THEN <<cp>>
  ELSE IF cp < 2048 THEN <<192 + cp \div 64, 128 + (cp % 64)>>
  ELSE IF cp < 65536
    THEN <<224 + cp \div 4096, 128 + ((cp \div 64) % 64), 128 + (cp % 64)>>
  ELSE <<240 + cp \div 262144, 128 + ((cp \div 4096) % 64),
         128 + ((cp \div 64) % 64), 128 + (cp % 64)>>

\* t.encode('utf-8'), the text being halved for a shallow evaluation.
RECURSIVE Utf8Encode(_)
Utf8Encode(t) ==
  IF Len(t) = 0 THEN <<>>
  ELSE IF Len(t) = 1 THEN Utf8Bytes(t[1])
  ELSE Utf8Encode(SubSeq(t, 1, Len(t) \div 2))
         \o Utf8Encode(SubSeq(t, Len(t) \div 2 + 1, Len(t)))

(***************************************************************************)
(* json.loads(text) on a str (a sequence of code points).  A parsed value  *)
(* is a record [t, v]: "str" with its code points, "num" with the text of  *)
(* the number, "lit" with the text of true, false or null, "arr" with the  *)
(* sequence of its values, "obj" with the sequence of its [k, v] members   *)
(* in the order read.  Every parser returns [ok, val, pos]: pos is the     *)
(* 1-based position after what it read; a JSONDecodeError is ok = FALSE.   *)
(***************************************************************************)
JsonFail == [ok |-> FALSE, val |-> [t |-> "none", v |-> <<>>], pos |-> 0]

\* json.decoder.WHITESPACE: space, tab, line feed, carriage return.
IsJsonSpace(c) == c \in {32, 9, 10, 13}

RECURSIVE SkipWs(_, _)
SkipWs(s, i) ==
  IF i <= Len(s) /\ IsJsonSpace(s[i]) THEN SkipWs(s, i + 1) ELSE i

IsDigit(c) == c >= 48 /\ c <= 57

IsHex(c) == IsDigit(c) \/ (c >= 97 /\ c <= 102) \/ (c >= 65 /\ c <= 70)

HexValue(c) == IF IsDigit(c) THEN c - 48 ELSE IF c >= 97 THEN c - 87 ELSE c - 55

\* The four hex digits at s[i..i+3], or -1.
Hex4(s, i) ==
  IF i + 3 > Len(s) THEN -1
  ELSE IF \E k \in 0..3 : ~IsHex(s[i + k]) THEN -1
  ELSE HexValue(s[i]) * 4096 + HexValue(s[i + 1]) * 256
         + HexValue(s[i + 2]) * 16 + HexValue(s[i + 3])

\* json.decoder.BACKSLASH: the code point of a one-letter escape, or -1.
SimpleEscape(e) ==
  CASE e = 34 -> 34
    [] e = 92 -> 92
    [] e = 47 -> 47
    [] e = 98 -> 8
    [] e = 102 -> 12
    [] e = 110 -> 10
    [] e = 114 -> 13
    [] e = 116 -> 9
    [] OTHER -> -1

\* scanstring(s, i), strict: from the position after the opening quote.
RECURSIVE ScanString(_, _, _)
ScanString(s, i, acc) ==
  IF i > Len(s) THEN JsonFail
  ELSE IF s[i] = 34 THEN [ok |-> TRUE, val |-> [t |-> "str", v |-> acc], pos |-> i + 1]
  ELSE IF s[i] < 32 THEN JsonFail
  ELSE IF s[i] # 92 THEN ScanString(s, i + 1, Append(acc, s[i]))
  ELSE IF i + 1 > Len(s) THEN JsonFail
  ELSE IF s[i + 1] # 117
    THEN IF SimpleEscape(s[i + 1]) = -1 THEN JsonFail
         ELSE ScanString(s, i + 2, Append(acc, SimpleEscape(s[i + 1])))
  ELSE LET uni == Hex4(s, i + 2)
           paired == uni >= 55296 /\ uni <= 56319 /\ i + 7 <= Len(s)
                       /\ s[i + 6] = 92 /\ s[i + 7] = 117
           uni2 == Hex4(s, i + 8)
       IN IF uni = -1 THEN JsonFail
          ELSE IF ~paired THEN ScanString(s, i + 6, Append(acc, uni))
          ELSE IF uni2 = -1 THEN JsonFail
          ELSE IF uni2 >= 56320 /\ uni2 <= 57343
            THEN ScanString(s, i + 12,
                   Append(acc, 65536 + (uni - 55296) * 1024 + (uni2 - 56320)))
          ELSE ScanString(s, i + 6, Append(acc, uni))

\* The position after the run of digits that starts at i.
RECURSIVE DigitsEnd(_, _)
DigitsEnd(s, i) ==
  IF i <= Len(s) /\ IsDigit(s[i]) THEN DigitsEnd(s, i + 1) ELSE i

\* json.scanner.NUMBER_RE at position i:
\* (-?(?:0|[1-9]\d*))(\.\d+)?([eE][-+]?\d+)?; the position after the match,
\* or i when there is none.
NumberEnd(s, i) ==
  LET d == IF i <= Len(s) /\ s[i] = 45 THEN i + 1 ELSE i
      intEnd == IF d > Len(s) \/ ~IsDigit(s[d]) THEN i
                ELSE IF s[d] = 48 THEN d + 1
                ELSE DigitsEnd(s, d)
      fracEnd == IF intEnd <= Len(s) /\ s[intEnd] = 46
                      /\ DigitsEnd(s, intEnd + 1) > intEnd + 1
                 THEN DigitsEnd(s, intEnd + 1) ELSE intEnd
      signEnd == IF fracEnd + 1 <= Len(s) /\ s[fracEnd + 1] \in {43, 45}
                 THEN fracEnd + 2 ELSE fracEnd + 1
      expEnd == IF fracEnd <= Len(s) /\ s[fracEnd] \in {101, 69}
                     /\ DigitsEnd(s, signEnd) > signEnd
                THEN DigitsEnd(s, signEnd) ELSE fracEnd
  IN IF intEnd = i THEN i ELSE expEnd

\* Whether the word w stands at position i of s.
WordAt(s, i, w) == i + Len(w) - 1 <= Len(s) /\ SubSeq(s, i, i + Len(w) - 1) = w

\* The words the scanner knows: null, true, false, NaN, Infinity, -Infinity.
JsonWords ==
  << <<110, 117, 108, 108>>, <<116, 114, 117, 101>>, <<102, 97, 108, 115, 101>>,
     <<78, 97, 78>>, <<73, 110, 102, 105, 110, 105, 116, 121>>,
     <<45, 73, 110, 102, 105, 110, 105, 116, 121>> >>

RECURSIVE ParseValue(_, _)
RECURSIVE ParseMembers(_, _, _)
RECURSIVE ParseElements(_, _, _)

\* The literal (null, true, false, NaN, Infinity, -Infinity) at position i.
ParseWord(s, i, hits) ==
  IF hits = {} THEN JsonFail
  ELSE [ok |-> TRUE,
        val |-> [t |-> "lit", v |-> JsonWords[CHOOSE k \in hits : TRUE]],
        pos |-> i + Len(JsonWords[CHOOSE k \in hits : TRUE])]

\* The number that ends before position e, or a literal when e = i.
ParseNumber(s, i, e) ==
  IF e # i
    THEN [ok |-> TRUE, val |-> [t |-> "num", v |-> SubSeq(s, i, e - 1)], pos |-> e]
  ELSE ParseWord(s, i, {k \in 1..Len(JsonWords) : WordAt(s, i, JsonWords[k])})

\* JSONObject after '{' and whitespace: empty, or its members.
ParseObject(s, j) ==
  IF j <= Len(s) /\ s[j] = 125
    THEN [ok |-> TRUE, val |-> [t |-> "obj", v |-> <<>>], pos |-> j + 1]
  ELSE ParseMembers(s, j, <<>>)

\* JSONArray after '[' and whitespace: empty, or its elements.
ParseArray(s, j) ==
  IF j <= Len(s) /\ s[j] = 93
    THEN [ok |-> TRUE, val |-> [t |-> "arr", v |-> <<>>], pos |-> j + 1]
  ELSE ParseElements(s, j, <<>>)

\* scan_once(s, i): the value that starts at position i.
ParseValue(s, i) ==
  IF i > Len(s) THEN JsonFail
  ELSE IF s[i] = 34 THEN ScanString(s, i + 1, <<>>)
  ELSE IF s[i] = 123 THEN ParseObject(s, SkipWs(s, i + 1))
  ELSE IF s[i] = 91 THEN ParseArray(s, SkipWs(s, i + 1))
  ELSE ParseNumber(s, i, NumberEnd(s, i))

\* JSONObject, after a member: '}' ends the object, ',' brings the next.
MemberNext(s, members, next) ==
  IF next > Len(s) THEN JsonFail
  ELSE IF s[next] = 125
    THEN [ok |-> TRUE, val |-> [t |-> "obj", v |-> members], pos |-> next + 1]
  ELSE IF s[next] = 44 THEN ParseMembers(s, SkipWs(s, next + 1), members)
  ELSE JsonFail

\* JSONObject, after a member's value was read.
MemberValue(s, acc, key, value) ==
  IF ~value.ok THEN JsonFail
  ELSE MemberNext(s, Append(acc, [k |-> key.val.v, v |-> value.val]),
                  SkipWs(s, value.pos))

\* JSONObject, after a member's key was read: the ':' and the value.
MemberColon(s, acc, key, colon) ==
  IF colon > Len(s) \/ s[colon] # 58 THEN JsonFail
  ELSE MemberValue(s, acc, key, ParseValue(s, SkipWs(s, colon + 1)))

\* JSONObject, after a member's key was scanned.
MemberKey(s, acc, key) ==
  IF ~key.ok THEN JsonFail ELSE MemberColon(s, acc, key, SkipWs(s, key.pos))

\* JSONObject: the members from position j (a key's opening quote) on.
ParseMembers(s, j, acc) ==
  IF j > Len(s) \/ s[j] # 34 THEN JsonFail
  ELSE MemberKey(s, acc, ScanString(s, j + 1, <<>>))

\* JSONArray, after an element: ']' ends the array, ',' brings the next.
ElementNext(s, elements, next) ==
  IF next > Len(s) THEN JsonFail
  ELSE IF s[next] = 93
    THEN [ok |-> TRUE, val |-> [t |-> "arr", v |-> elements], pos |-> next + 1]
  ELSE IF s[next] = 44 THEN ParseElements(s, SkipWs(s, next + 1), elements)
  ELSE JsonFail

\* JSONArray, after an element's value was read.
ElementValue(s, acc, value) ==
  IF ~value.ok THEN JsonFail
  ELSE ElementNext(s, Append(acc, value.val), SkipWs(s, value.pos))

\* JSONArray: the elements from position j on.
ParseElements(s, j, acc) == ElementValue(s, acc, ParseValue(s, j))

\* The end of json.loads: nothing but whitespace may follow the value.
JsonEnd(text, r) ==
  IF ~r.ok THEN JsonFail
  ELSE IF SkipWs(text, r.pos) # Len(text) + 1 THEN JsonFail
  ELSE r

\* json.loads(text): one value between optional whitespace, nothing after.
JsonLoads(text) == JsonEnd(text, ParseValue(text, SkipWs(text, 1)))

\* key in meta, for a parsed object.
JsonHas(obj, key) ==
  obj.t = "obj" /\ \E i \in 1..Len(obj.v) : obj.v[i].k = key

\* meta[key]: a dict keeps the last value given for a key.
JsonGet(obj, key) ==
  LET hits == {i \in 1..Len(obj.v) : obj.v[i].k = key}
  IN obj.v[CHOOSE i \in hits : \A j \in hits : i >= j].v

(***************************************************************************)
(* Crypto.Cipher.ARC4: the RC4 key schedule and keystream generator.       *)
(***************************************************************************)
Swap(S, i, j) == [S EXCEPT ![i] = S[j], ![j] = S[i]]

\* One round of the key-scheduling loop, on the state [S, j].
KSAStep(st, i, k) ==
  LET j2 == (st.j + st.S[i] + k[(i % Len(k)) + 1]) % 256
  IN [S |-> Swap(st.S, i, j2), j |-> j2]

\* The rounds lo..hi of the key-scheduling loop, in order.  The range is
\* halved so that the evaluation stays shallow; the test on left.j makes the
\* first half's result be computed before the second half starts.
RECURSIVE KSARange(_, _, _, _)
KSARange(st, lo, hi, k) ==
  IF lo = hi THEN KSAStep(st, lo, k)
  ELSE LET mid == (lo + hi) \div 2
           left == KSARange(st, lo, mid, k)
       IN IF left.j >= 0 THEN KSARange(left, mid + 1, hi, k) ELSE left

\* The key-scheduling algorithm: the permutation S for the key k.
KSA(k) == KSARange([S |-> [x \in 0..255 |-> x], j |-> 0], 0, 255, k).S

\* The generation loop: XORs the keystream onto s from 1-based position n on.
RECURSIVE PRGA(_, _, _, _, _, _)
PRGA(S, i, j, s, n, out) ==
  IF n > Len(s) THEN out
  ELSE LET i2 == (i + 1) % 256
           j2 == (j + S[i2]) % 256
           S2 == Swap(S, i2, j2)
           K == S2[(S2[i2] + S2[j2]) % 256]
       IN PRGA(S2, i2, j2, s, n + 1, Append(out, BitXor(s[n], K)))

\* ARC4.new(k).decrypt(s); ValueError unless 1 <= len(k) <= 256.
ARC4Decrypt(k, s) ==
  IF Len(k) < 1 \/ Len(k) > ARC4MaxKey THEN [ok |-> FALSE, val |-> <<>>]
  ELSE [ok |-> TRUE,
        val |-> PRGA(KSA(k), 0, 0, s, 1, <<>>)]

(***************************************************************************)
(* Metadata Unlock: decrypt_ncm lines 233-284.                             *)
(***************************************************************************)
\* The exceptions the metadata stage lets out.
Base64Error == "binascii.Error"

PaddingError == "Padding is incorrect"

UnicodeError == "UnicodeDecodeError"

JsonError == "JSONDecodeError"

\* Lines 243-248: the retry with '=' appended when the first decoding
\* raised and the number of bytes is not a multiple of 4.
Base64Retry(encrypted_meta, first) ==
  IF first.ok THEN first
  ELSE B64Decode(IF Len(encrypted_meta) % 4 # 0
                 THEN encrypted_meta \o Repeat(61, 4 - (Len(encrypted_meta) % 4))
                 ELSE encrypted_meta)

\* Lines 240-248: base64 decoding, retried once.
DecodeMetaBase64(encrypted_meta) ==
  Base64Retry(encrypted_meta, B64Decode(encrypted_meta))

\* A faulty variant of DecryptMeta, for the check of the metadata round
\* trip: the block decryption is left out.
NoDecryptMeta(encrypted_meta) == encrypted_meta

\* Lines 254-262: padding to a block multiple, then the block decryption.
DecryptMeta(encrypted_meta) ==
  LET padding_length == BlockSize - (Len(encrypted_meta) % BlockSize)
  IN AESDecrypt(IF padding_length # BlockSize
                THEN encrypted_meta \o Repeat(padding_length, padding_length)
                ELSE encrypted_meta).val

\* Lines 273-282: the text up to the last '}', or the ValueError again.
ManualPadding(meta_str, json_end) ==
  IF json_end # -1
    THEN [ok |-> TRUE, val |-> Utf8Encode(Slice(meta_str, 0, json_end + 1)),
          manual |-> TRUE]
  ELSE [ok |-> FALSE, val |-> <<>>, manual |-> TRUE]

\* Lines 273-275: the lenient decoding and the search of the last '}'.
ManualSearch(meta_str) == ManualPadding(meta_str, RFind(meta_str, <<125>>))

\* Lines 269-282, on the outcome of unpad.
AfterUnpad(meta, un) ==
  IF un.ok THEN [ok |-> TRUE, val |-> un.val, manual |-> FALSE]
  ELSE ManualSearch(Utf8Decode(meta, TRUE).val)

\* Lines 269-282: unpad, or on its ValueError the text up to the last '}'.
\* manual tells whether the heuristic produced the plaintext.
RemoveMetaPadding(meta) == AfterUnpad(meta, Unpad(meta))

\* What the metadata stage yields when it raises err.
MetaFailure(err, manual, parsedText, jsonCalled) ==
  [ok |-> FALSE, meta |-> [t |-> "none", v |-> <<>>], err |-> err,
   manual |-> manual, parsedText |-> parsedText, jsonCalled |-> jsonCalled]

\* Line 284, on the outcome of json.loads.
MetaFromJson(stripped, text, parsed) ==
  IF ~parsed.ok THEN MetaFailure(JsonError, stripped.manual, text.val, TRUE)
  ELSE [ok |-> TRUE, meta |-> parsed.val, err |-> "",
        manual |-> stripped.manual, parsedText |-> text.val,
        jsonCalled |-> TRUE]

\* Line 284: meta.decode('utf-8') and json.loads.
MetaFromText(stripped, text) ==
  IF ~text.ok THEN MetaFailure(UnicodeError, stripped.manual, <<>>, FALSE)
  ELSE MetaFromJson(stripped, text, JsonLoads(text.val))

\* Lines 269-284, on the outcome of the padding removal.
MetaFromPlain(stripped) ==
  IF ~stripped.ok THEN MetaFailure(PaddingError, TRUE, <<>>, FALSE)
  ELSE MetaFromText(stripped, Utf8Decode(stripped.val, FALSE))

\* Lines 250-284, on the outcome of the base64 decoding.
MetaFromBase64(b64) ==
  IF ~b64.ok THEN MetaFailure(Base64Error, FALSE, <<>>, FALSE)
  ELSE MetaFromPlain(RemoveMetaPadding(DecryptMeta(b64.val)))

\* Lines 233-284.  parsedText is the text handed to json.loads when it is
\* called.
MetaUnlock(raw) == MetaFromBase64(DecodeMetaBase64(XorMask(raw, META_XOR_KEY)))

(***************************************************************************)
(* decrypt_ncm, lines 93-335, as a record d of its local state:            *)
(*   pc               the stage to run next, or DONE / FAILED              *)
(*   data, debug      the file's bytes and the debug flag                  *)
(*   offset, key, meta, audio_data, decrypted_audio   the locals           *)
(*   err, raised      the cause and the class of the exception that left   *)
(*   ops              the cipher operations performed so far               *)
(*   stages           the stages entered so far                            *)
(*   truncated        the length fields (N1, N2, N3) that declared more    *)
(*                    bytes than the buffer had left                       *)
(*   key_strategy, key_path, meta_manual, meta_text, json_called           *)
(*                    which branches the two unlock steps took             *)
(***************************************************************************)
\* The messages and classes of the other exceptions decrypt_ncm meets.
NotAContainer == "Not a valid NCM file"

StructError == "struct.error"

ARC4KeyError == "Incorrect ARC4 key length"

FileError == "OSError"

StageOrder == <<"MAGIC_CHECK", "KEY_BOX", "META_BOX", "COVER_SKIP", "AUDIO_DECRYPT">>

Terminal == {"DONE", "FAILED"}

NoMeta == [t |-> "none", v |-> <<>>]

\* The state of a call that has not started: decrypt_ncm(file, debug).
NewCall(file, dbg) ==
  [pc |-> "START", file |-> file, data |-> <<>>, debug |-> dbg, offset |-> 0,
   key |-> <<>>, meta |-> NoMeta, audio_data |-> <<>>, decrypted_audio |-> <<>>,
   err |-> "", raised |-> "", ops |-> <<>>, stages |-> <<>>, truncated |-> {},
   key_strategy |-> -1, key_path |-> "", meta_manual |-> FALSE,
   meta_text |-> <<>>, json_called |-> FALSE]

\* A faulty variant of Fail, for the check of the decoder's outcomes: the
\* stage's own exception leaves decrypt_ncm instead of the wrapping one.
Uncaught(d, cause) == [d EXCEPT !.pc = "FAILED", !.err = cause, !.raised = cause]

\* Lines 334-335: whatever a stage raises leaves as
\* Exception("Failed to decrypt NCM file: <cause>").
Fail(d, cause) == [d EXCEPT !.pc = "FAILED", !.err = cause, !.raised = "Exception"]

Enter(d, stage) == [d EXCEPT !.stages = Append(d.stages, stage)]

\* Notes that the length field called name, read at offset at, declares n
\* bytes where the buffer has fewer left.  Python's slice is silently
\* shortened in that case.
NoteLength(d, name, at, n) ==
  IF at + 4 + n > Len(d.data)
  THEN [d EXCEPT !.truncated = d.truncated \cup {name}] ELSE d

\* Lines 96-97: open the file and read it whole.
ReadFile(d) ==
  IF ~d.file.readable THEN Fail(d, FileError)
  ELSE [d EXCEPT !.pc = "MAGIC_CHECK", !.data = d.file.content]

\* A faulty variant of MagicCheck, for the check of the rejection path: the
\* magic is not looked at.
MagicCheckSkipped(d0) ==
  [Enter(d0, "MAGIC_CHECK") EXCEPT !.pc = "KEY_BOX", !.offset = Len(MAGIC_HEADER)]

\* Lines 99-103.
MagicCheck(d0) ==
  LET d == Enter(d0, "MAGIC_CHECK")
  IN IF ~StartsWith(d.data, MAGIC_HEADER) THEN Fail(d, NotAContainer)
     ELSE [d EXCEPT !.pc = "KEY_BOX", !.offset = Len(MAGIC_HEADER)]

\* A faulty variant of KeyBoxUnlocked, for the check of the stage order: the
\* metadata stage is jumped over.
KeyBoxSkipsMeta(d, key_len, unlocked) ==
  [d EXCEPT !.pc = "COVER_SKIP", !.offset = d.offset + 4 + key_len,
            !.key = unlocked.key]

\* Lines 110-223, with the key length read.
KeyBoxUnlocked(d, key_len, unlocked) ==
  LET after == [NoteLength(d, "N1", d.offset, key_len) EXCEPT
                         !.offset = d.offset + 4 + key_len,
                         !.ops = d.ops \o <<"xor_key", "aes_key">>,
                         !.key_strategy = unlocked.strategy,
                         !.key_path = unlocked.path]
  IN IF ~unlocked.ok THEN Fail(after, unlocked.err)
     ELSE [after EXCEPT !.pc = "META_BOX", !.key = unlocked.key]

\* Lines 106-110: the length field and the slice it announces.
KeyBoxLength(d, key_len) ==
  IF ~key_len.ok THEN Fail(d, StructError)
  ELSE KeyBoxUnlocked(d, key_len.val,
         KeyUnlock(Slice(d.data, d.offset + 4, d.offset + 4 + key_len.val)))

KeyBoxEntered(d) ==
  KeyBoxLength(d, UnpackU32(Slice(d.data, d.offset, d.offset + 4)))

\* Lines 105-223.
KeyBox(d0) == KeyBoxEntered(Enter(d0, "KEY_BOX"))

\* Lines 229-287, with the metadata length read.
MetaBoxUnlocked(d, meta_len, unlocked) ==
  LET after == [NoteLength(d, "N2", d.offset, meta_len) EXCEPT
                         !.offset = d.offset + 4 + meta_len,
                         !.ops = d.ops \o (IF unlocked.err = Base64Error
                                           THEN <<"xor_meta">>
                                           ELSE <<"xor_meta", "aes_meta">>),
                         !.meta_manual = unlocked.manual,
                         !.meta_text = unlocked.parsedText,
                         !.json_called = unlocked.jsonCalled]
  IN IF ~unlocked.ok THEN Fail(after, unlocked.err)
     ELSE [after EXCEPT !.pc = "COVER_SKIP", !.meta = unlocked.meta]

\* Lines 226-230: the length field and the slice it announces.
MetaBoxLength(d, meta_len) ==
  IF ~meta_len.ok THEN Fail(d, StructError)
  ELSE MetaBoxUnlocked(d, meta_len.val,
         MetaUnlock(Slice(d.data, d.offset + 4, d.offset + 4 + meta_len.val)))

MetaBoxEntered(d) ==
  MetaBoxLength(d, UnpackU32(Slice(d.data, d.offset, d.offset + 4)))

\* Lines 225-287.
MetaBox(d0) == MetaBoxEntered(Enter(d0, "META_BOX"))

\* A faulty variant of CoverSkip, for the check of the audio region: the
\* image size is read but the image is not skipped.
CoverSkipKeepsImage(d0) ==
  LET d == Enter(d0, "COVER_SKIP")
      offset == d.offset + 4
      image_size == UnpackU32(Slice(d.data, offset + 5, offset + 9))
  IN IF ~image_size.ok THEN Fail(d, StructError)
     ELSE [d EXCEPT !.pc = "AUDIO_DECRYPT", !.offset = offset + 9]

\* Lines 289-294: the CRC, the 5-byte gap, the image size and the image.
CoverSkip(d0) ==
  LET d == Enter(d0, "COVER_SKIP")
      offset == d.offset + 4
      image_size == UnpackU32(Slice(d.data, offset + 5, offset + 9))
  IN IF ~image_size.ok THEN Fail(d, StructError)
     ELSE [NoteLength(d, "N3", offset + 5, image_size.val) EXCEPT
             !.pc = "AUDIO_DECRYPT", !.offset = offset + 9 + image_size.val]

\* Lines 311-326, run only under debug: the audio is cut at the first
\* b'\xff\xe3' when none of the known headers starts it.
SniffAudio(decrypted_audio) ==
  LET mp3_header_pos == Find(decrypted_audio, <<255, 227>>)
  IN IF StartsWith(decrypted_audio, <<73, 68, 51>>) THEN decrypted_audio
     ELSE IF StartsWith(decrypted_audio, <<102, 76, 97, 67>>) THEN decrypted_audio
     ELSE IF Slice(decrypted_audio, 0, 4) = <<255, 251>>
             \/ Slice(decrypted_audio, 0, 3) = <<255, 243>>
             \/ Slice(decrypted_audio, 0, 3) = <<255, 242>> THEN decrypted_audio
     ELSE IF mp3_header_pos # -1 /\ mp3_header_pos < 1024
       THEN SliceFrom(decrypted_audio, mp3_header_pos)
     ELSE decrypted_audio

\* Lines 304-332, on the outcome of the stream cipher.
AudioDecrypted(d, plain) ==
  IF ~plain.ok THEN Fail(d, ARC4KeyError)
  ELSE [d EXCEPT !.pc = "DONE", !.ops = d.ops \o <<"rc4">>,
                 !.decrypted_audio = IF d.debug THEN SniffAudio(plain.val)
                                     ELSE plain.val]

\* Lines 304-305: ARC4.new(key).decrypt(audio_data).
AudioSliced(d) == AudioDecrypted(d, ARC4Decrypt(d.key, d.audio_data))

\* Lines 296-332.
AudioDecrypt(d0) ==
  AudioSliced([Enter(d0, "AUDIO_DECRYPT") EXCEPT
                 !.audio_data = SliceFrom(d0.data, d0.offset)])

\* One stage of decrypt_ncm.
DecodeStep(d) ==
  CASE d.pc = "START" -> ReadFile(d)
    [] d.pc = "MAGIC_CHECK" -> MagicCheck(d)
    [] d.pc = "KEY_BOX" -> KeyBox(d)
    [] d.pc = "META_BOX" -> MetaBox(d)
    [] d.pc = "COVER_SKIP" -> CoverSkip(d)
    [] d.pc = "AUDIO_DECRYPT" -> AudioDecrypt(d)
    [] OTHER -> d

\* decrypt_ncm(file, debug) run to its end.
RECURSIVE RunDecode(_)
RunDecode(d) == IF d.pc \in Terminal THEN d ELSE RunDecode(DecodeStep(d))

DecryptNcm(file, dbg) == RunDecode(NewCall(file, dbg))

(***************************************************************************)
(* The files of the model.  A file is [readable, content] with a note of   *)
(* how it was made: family, and for the well-formed ones the key K, the    *)
(* metadata J and the audio plain that went into it.                       *)
(***************************************************************************)
\* All sequences over S of length at most n.
SeqsUpTo(S, n) == UNION {[1..k -> S] : k \in 0..n}

\* Bounds of the metadata drawn: string length and number of artists.
MaxStrLen == 1

MaxArtists == 2

\* The sample of section 8 of the specification: "ABCDEFGHIJKLMNOP".
K0 == <<65, 66, 67, 68, 69, 70, 71, 72, 73, 74, 75, 76, 77, 78, 79, 80>>

\* {"musicName":"T","artist":[{"name":"A"}],"album":"B"}
J0 == [musicName |-> <<84>>, artist |-> << <<65>> >>, album |-> <<66>>]

\* b'ID3\x04'
P0 == <<73, 68, 51, 4>>

\* Keys: non-empty, not ending in a zero byte.
Keys ==
  {K0} \cup {k \in SeqsUpTo({0, 7}, MaxKeyLen) : k # <<>> /\ k[Len(k)] # 0}

\* Code points for the metadata strings: T, a quote, a closing brace, e-acute.
MetaStrings == SeqsUpTo({84, 34, 125, 233}, MaxStrLen)

ArtistLists == SeqsUpTo({<<65>>, <<233, 92>>}, MaxArtists)

Metas ==
  {[J0 EXCEPT !.musicName = s] : s \in MetaStrings}
    \cup {[J0 EXCEPT !.album = s] : s \in MetaStrings}
    \cup {[J0 EXCEPT !.artist = a] : a \in ArtistLists}

\* Audio as it is meant to come out of the stream cipher.
Plains == {P0} \cup SeqsUpTo({255, 227}, MaxAudioLen)

\* A JSON string body: quote and backslash escaped, the rest as it is.
RECURSIVE JsonEscape(_)
JsonEscape(t) ==
  IF Len(t) = 0 THEN <<>>
  ELSE (IF t[1] \in {34, 92} THEN <<92, t[1]>> ELSE <<t[1]>>) \o JsonEscape(Tail(t))

RECURSIVE JsonArtists(_)
JsonArtists(a) ==
  IF Len(a) = 0 THEN <<>>
  ELSE <<123, 34, 110, 97, 109, 101, 34, 58, 34>> \o JsonEscape(a[1]) \o <<34, 125>>
       \o (IF Len(a) > 1 THEN <<44>> ELSE <<>>) \o JsonArtists(Tail(a))

\* The JSON text of J: {"musicName":"..","artist":[{"name":".."},..],"album":".."}
JsonDumps(J) ==
  <<123, 34, 109, 117, 115, 105, 99, 78, 97, 109, 101, 34, 58, 34>>
    \o JsonEscape(J.musicName)
    \o <<34, 44, 34, 97, 114, 116, 105, 115, 116, 34, 58, 91>>
    \o JsonArtists(J.artist)
    \o <<93, 44, 34, 97, 108, 98, 117, 109, 34, 58, 34>>
    \o JsonEscape(J.album) \o <<34, 125>>

\* A key box: the block-aligned plaintext encrypted, then masked with 0x64.
KeyBoxOf(plain) == XorMask(AESEncrypt(plain), KEY_XOR_KEY)

\* The key box of a conforming encoder: marker || K with standard padding.
CanonicalKeyBox(K) == KeyBoxOf(Pkcs7Pad(HEADER \o K))

\* A metadata box: the block-aligned plaintext encrypted, base64-encoded,
\* then masked with 0x63.
MetaBoxOf(plain) == XorMask(B64Encode(AESEncrypt(plain)), META_XOR_KEY)

\* The metadata box of a conforming encoder.
CanonicalMetaBox(J) == MetaBoxOf(Pkcs7Pad(Utf8Encode(JsonDumps(J))))

\* The stream cipher is its own inverse: the bytes that decrypt to plain.
AudioFor(k, plain) == ARC4Decrypt(k, plain).val

\* The container layout of section 6, n1, n2 and n3 being the declared
\* lengths; the CRC and the 5-byte gap get fixed values.
Container(n1, keyBox, n2, metaBox, n3, cover, audio) ==
  MAGIC_HEADER \o PackU32(n1) \o keyBox \o PackU32(n2) \o metaBox
    \o <<1, 2, 3, 4>> \o <<5, 6, 7, 8, 9>> \o PackU32(n3) \o cover \o audio

NoJ == [musicName |-> <<>>, artist |-> <<>>, album |-> <<>>]

File(family, K, J, plain, content) ==
  [readable |-> TRUE, content |-> content, family |-> family,
   K |-> K, J |-> J, plain |-> plain]

\* A container with honest lengths around the given boxes, cover and audio.
Honest(family, K, J, plain, keyBox, metaBox, cover, audio) ==
  File(family, K, J, plain,
       Container(Len(keyBox), keyBox, Len(metaBox), metaBox, Len(cover), cover, audio))

\* What a conforming encoder writes for (K, J, plain).
WellFormed(family, K, J, plain) ==
  Honest(family, K, J, plain, CanonicalKeyBox(K), CanonicalMetaBox(J),
         <<10, 11>>, AudioFor(K, plain))

\* The well-formed files: each of K, J and the audio varied in turn.
WellFormedFiles ==
  {WellFormed("wellformed", K, J0, P0) : K \in Keys}
    \cup {WellFormed("wellformed", K0, J, P0) : J \in Metas}

\* Files whose audio decrypts, under the key decrypt_ncm derives from the
\* canonical key box of K0, to each of Plains.
AudioFile(p) ==
  Honest("audio", K0, J0, p, CanonicalKeyBox(K0), CanonicalMetaBox(J0), <<>>,
         AudioFor(KeyUnlock(CanonicalKeyBox(K0)).key, p))

AudioFiles == {AudioFile(p) : p \in Plains}

\* Files that do not start with the magic: too short, or one byte off.
MagicFiles ==
  {File("magic", <<>>, NoJ, <<>>, SubSeq(MAGIC_HEADER, 1, n)) : n \in {0, 7}}
    \cup {File("magic", <<>>, NoJ, <<>>,
               [WellFormed("x", K0, J0, P0).content EXCEPT ![i] = 0]) : i \in {1, 8}}

\* Key-box plaintexts other than the canonical one, each block aligned:
\* the marker after three bytes, after two zero bytes, absent with 32 and
\* with 272 other bytes, absent with one other byte, followed by nothing but
\* zeros, and with the key zero-padded; the marker after a byte and two
\* zero bytes, the marker in capitals, and one byte after fifteen zeros.
KeyPlains ==
  {Pkcs7Pad(<<1, 2, 3>> \o HEADER \o K0),
   Pkcs7Pad(<<0, 0>> \o HEADER \o K0),
   Repeat(9, 32),
   Repeat(9, 272),
   <<5>> \o Repeat(0, 15),
   <<1>> \o HEADER \o Repeat(0, 14),
   HEADER \o K0 \o Repeat(0, 15),
   Pkcs7Pad(<<1, 0, 0>> \o HEADER \o K0),
   Pkcs7Pad(<<1, 78, 69, 84, 69, 65, 83, 69, 67, 76, 79, 85, 68, 77, 85, 83, 73, 67>>
              \o K0),
   Repeat(0, 15) \o <<5>>}

\* Key boxes that are no multiple of the block size: empty, and cut short.
RaggedKeyBoxes == {<<>>, SubSeq(CanonicalKeyBox(K0), 1, 20)}

KeyFiles ==
  {Honest("key", <<>>, J0, P0, KeyBoxOf(p), CanonicalMetaBox(J0), <<>>, P0) :
     p \in KeyPlains}
    \cup {Honest("key", <<>>, J0, P0, b, CanonicalMetaBox(J0), <<>>, P0) :
            b \in RaggedKeyBoxes}

\* Metadata plaintexts other than the canonical one, each block aligned:
\* JSON with zero padding, no JSON and no padding, a byte that is no UTF-8,
\* text that is no JSON, and JSON that is no object; b'\xff{}' with zero
\* padding.
MetaPlains ==
  {Utf8Encode(JsonDumps(J0)) \o Repeat(0, 11),
   Repeat(120, 16),
   Pkcs7Pad(<<255>>),
   Pkcs7Pad(<<97, 98, 99>>),
   Pkcs7Pad(<<53>>),
   <<255, 123, 125>> \o Repeat(0, 13)}

\* Metadata boxes that are no clean base64: empty, a lone character, and the
\* canonical box with its two '=' left off.
RaggedMetaBoxes ==
  {<<>>, XorMask(<<65>>, META_XOR_KEY),
   SubSeq(CanonicalMetaBox(J0), 1, Len(CanonicalMetaBox(J0)) - 2)}

MetaFiles ==
  {Honest("meta", K0, NoJ, P0, CanonicalKeyBox(K0), MetaBoxOf(p), <<>>, P0) :
     p \in MetaPlains}
    \cup {Honest("meta", K0, NoJ, P0, CanonicalKeyBox(K0), b, <<>>, P0) :
            b \in RaggedMetaBoxes}

\* The well-formed sample cut after n bytes.
CutAt(n) ==
  File("cut", K0, J0, P0, SubSeq(WellFormed("x", K0, J0, P0).content, 1, n))

\* Files whose bytes end early or whose length fields declare too much: the
\* sample cut after the magic, inside the key box, after the key box, inside
\* the metadata box, after it, and inside the cover; and the sample with N1,
\* N2 or N3 raised by 1000.
CutFiles ==
  LET kb == CanonicalKeyBox(K0)
      mb == CanonicalMetaBox(J0)
      audio == AudioFor(K0, P0)
      afterKey == 12 + Len(kb)
      afterMeta == afterKey + 4 + Len(mb)
  IN {CutAt(n) : n \in {8, 20, afterKey, afterKey + 10, afterMeta, afterMeta + 14}}
       \cup {File("cut", K0, J0, P0,
                  Container(Len(kb) + 1000, kb, Len(mb), mb, 2, <<10, 11>>, audio)),
             File("cut", K0, J0, P0,
                  Container(Len(kb), kb, Len(mb) + 1000, mb, 2, <<10, 11>>, audio)),
             File("cut", K0, J0, P0,
                  Container(Len(kb), kb, Len(mb), mb, 1002, <<10, 11>>, audio))}

\* The file of test_debug_mode: the magic, a key length of 0 and a metadata
\* length of 0, and nothing after.
ZeroBoxes ==
  File("zero", <<>>, NoJ, <<>>, MAGIC_HEADER \o PackU32(0) \o PackU32(0))

\* A file that cannot be opened.
Unreadable == [File("unreadable", <<>>, NoJ, <<>>, <<>>) EXCEPT !.readable = FALSE]

Files ==
  WellFormedFiles \cup AudioFiles \cup MagicFiles \cup KeyFiles \cup MetaFiles
    \cup CutFiles \cup {ZeroBoxes, Unreadable}

(***************************************************************************)
(* convert_ncm_to_mp3 (lines 394-457) and main's loop (lines 497-518).     *)
(* A path is [dir, stem]: the directory and the base name without its      *)
(* extension.  An .mp3 on the disk is [exists, audio, tagged].             *)
(***************************************************************************)
\* What may be typed at the overwrite prompt: y, Y, n, nothing, yes.
Responses == {<<121>>, <<89>>, <<110>>, <<>>, <<121, 101, 115>>}

\* str.lower() on ASCII text.
Lower(s) ==
  [i \in 1..Len(s) |-> IF s[i] >= 65 /\ s[i] <= 90 THEN s[i] + 32 ELSE s[i]]

\* args.output: None when -o is not given.
None == "None"

OutputDirs == {None, "out"}

\* The NCM files of the batches: a well-formed file, the file of
\* test_debug_mode, and in a subdirectory a file with the name of the first
\* whose audio holds b'\xff\xe3' after its first byte.
Song == [dir |-> "in", stem |-> "a"]

Stub == [dir |-> "in", stem |-> "b"]

SubSong == [dir |-> "in/sub", stem |-> "a"]

InputPaths == {Song, Stub, SubSong}

StoredFile(path) ==
  IF path = Song THEN WellFormed("wellformed", K0, J0, P0)
  ELSE IF path = Stub THEN ZeroBoxes
  ELSE AudioFile(<<227, 255, 227>>)

\* get_ncm_files: what main loops over, a non-empty list of distinct paths
\* (lines 479-483).
Batches ==
  {b \in SeqsUpTo(InputPaths, MaxFiles) :
     b # <<>> /\ \A i, j \in 1..Len(b) : i # j => b[i] # b[j]}

\* Lines 398-403: the output path of an input path.
Mp3Path(ncm_file_path, output_dir) ==
  [dir |-> IF output_dir = None THEN ncm_file_path.dir ELSE output_dir,
   stem |-> ncm_file_path.stem]

OutputPaths == {Mp3Path(p, o) : p \in InputPaths, o \in OutputDirs}

Absent == [exists |-> FALSE, audio |-> <<>>, tagged |-> FALSE]

\* An .mp3 left by an earlier run: b'OLD'.
OldMp3 == [exists |-> TRUE, audio |-> <<79, 76, 68>>, tagged |-> FALSE]

\* Line 424: decrypt_ncm(ncm_file_path, debug=debug) for each input.
Decoded ==
  [p \in InputPaths, dbg \in BOOLEAN |-> DecryptNcm(StoredFile(p), dbg)]

\* A faulty variant of AsksBeforeOverwrite, for the check of the overwrite
\* guard: an existing output never stands in the way.
NeverAsks(exists, force_overwrite) == FALSE

\* Line 406: whether the existing output stands in the way.
AsksBeforeOverwrite(exists, force_overwrite) == exists /\ ~force_overwrite

\* convert_ncm_to_mp3 before and after a call.
IdleConv ==
  [pc |-> "IDLE", ncm_file_path |-> Song, mp3_file_path |-> Song,
   response |-> <<>>, prompted |-> FALSE, decrypt_called |-> FALSE,
   decrypt_ok |-> FALSE, decrypted_audio |-> <<>>, temp_file_path |-> 0,
   pending |-> "", result |-> FALSE, copied |-> FALSE,
   existed |-> FALSE, before |-> Absent]

\* Lines 394-403: the call's locals on entry; existed and before note the
\* output path's state on entry.
ConvertCall(ncm_file_path, output_dir, mp3) ==
  [IdleConv EXCEPT !.pc = "CHECK", !.ncm_file_path = ncm_file_path,
                   !.mp3_file_path = Mp3Path(ncm_file_path, output_dir),
                   !.existed = mp3[Mp3Path(ncm_file_path, output_dir)].exists,
                   !.before = mp3[Mp3Path(ncm_file_path, output_dir)]]

\* Lines 412-415: anything but y or Y returns False.
Answered(c, response, prompted) ==
  IF Lower(response) # <<121>>
    THEN [c EXCEPT !.response = response, !.prompted = prompted,
                   !.pc = "RETURN", !.result = FALSE]
  ELSE [c EXCEPT !.response = response, !.prompted = prompted,
                 !.pc = "DECRYPT"]

\* Line 424: the audio, or the exception on its way to line 454.
Decrypted(c, d) ==
  IF d.pc = "FAILED"
    THEN [c EXCEPT !.decrypt_called = TRUE, !.pending = "raise", !.pc = "EXCEPT"]
  ELSE [c EXCEPT !.decrypt_called = TRUE, !.decrypt_ok = TRUE,
                 !.decrypted_audio = d.decrypted_audio, !.pc = "TEMP"]

\* A faulty variant of Count, for the check of the batch counters: a failed
\* file is not counted.
CountSuccesses(m, converted) ==
  IF converted THEN [m EXCEPT !.success_count = @ + 1] ELSE m

\* Lines 504-507.
Count(m, converted) ==
  IF converted THEN [m EXCEPT !.success_count = @ + 1]
  ELSE [m EXCEPT !.error_count = @ + 1]

\* What a finished call leaves in the log.
Summary(c, a, mp3, temp) ==
  [ncm_file_path |-> c.ncm_file_path, mp3_file_path |-> c.mp3_file_path,
   force_overwrite |-> a.force, quiet |-> a.quiet,
   existed |-> c.existed, before |-> c.before, after |-> mp3[c.mp3_file_path],
   response |-> c.response, prompted |-> c.prompted,
   decrypt_called |-> c.decrypt_called, decrypt_ok |-> c.decrypt_ok,
   copied |-> c.copied, result |-> c.result, temp_left |-> temp]

NoArgs ==
  [ncm_files |-> <<>>, output |-> None, force |-> FALSE, quiet |-> FALSE,
   debug |-> FALSE]

NewMain ==
  [pc |-> "LOOP", i |-> 0, success_count |-> 0, error_count |-> 0,
   exit_code |-> -1]

EmptyDisk == [mp3 |-> [p \in OutputPaths |-> Absent], temp |-> {}, made |-> 0]

UsedDisk == [EmptyDisk EXCEPT !.mp3 = [p \in OutputPaths |-> OldMp3]]

NoLog == [calls |-> <<>>, done |-> <<>>, writes |-> <<>>]

(***************************************************************************)
(* The state: dec is the call of decrypt_ncm (in a batch, the latest one); *)
(* args, main and conv are the command line, main's locals and the locals  *)
(* of the running convert_ncm_to_mp3; disk holds the .mp3 and temporary    *)
(* files; log records the calls made, the calls finished and the writes.   *)
(***************************************************************************)
VARIABLES dec, args, main, conv, disk, log

vars == <<dec, args, main, conv, disk, log>>

batchVars == <<args, main, conv, disk, log>>

(***************************************************************************)
(* The decoder on its own: one call of decrypt_ncm on any of Files.        *)
(***************************************************************************)
Init ==
  /\ \E f \in Files, dbg \in BOOLEAN : dec = NewCall(f, dbg)
  /\ args = NoArgs
  /\ main = NewMain
  /\ conv = IdleConv
  /\ disk = EmptyDisk
  /\ log = NoLog

DoReadFile ==
  dec.pc = "START" /\ dec' = ReadFile(dec) /\ UNCHANGED batchVars

DoMagicCheck ==
  dec.pc = "MAGIC_CHECK" /\ dec' = MagicCheck(dec) /\ UNCHANGED batchVars

DoKeyBox ==
  dec.pc = "KEY_BOX" /\ dec' = KeyBox(dec) /\ UNCHANGED batchVars

DoMetaBox ==
  dec.pc = "META_BOX" /\ dec' = MetaBox(dec) /\ UNCHANGED batchVars

DoCoverSkip ==
  dec.pc = "COVER_SKIP" /\ dec' = CoverSkip(dec) /\ UNCHANGED batchVars

DoAudioDecrypt ==
  dec.pc = "AUDIO_DECRYPT" /\ dec' = AudioDecrypt(dec) /\ UNCHANGED batchVars

Next ==
  \/ DoReadFile
  \/ DoMagicCheck
  \/ DoKeyBox
  \/ DoMetaBox
  \/ DoCoverSkip
  \/ DoAudioDecrypt

Spec == Init /\ [][Next]_vars

(***************************************************************************)
(* A batch: main's loop over ncm_files, each file through                  *)
(* convert_ncm_to_mp3, decrypt_ncm being one step of it.                   *)
(***************************************************************************)
BatchInit ==
  /\ dec = NewCall(Unreadable, FALSE)
  /\ \E b \in Batches, o \in OutputDirs, f \in BOOLEAN, q \in BOOLEAN,
        dbg \in BOOLEAN :
       args = [ncm_files |-> b, output |-> o, force |-> f, quiet |-> q,
               debug |-> dbg]
  /\ main = NewMain
  /\ conv = IdleConv
  /\ disk \in {EmptyDisk, UsedDisk}
  /\ log = NoLog

\* Lines 500-504: the next file goes to convert_ncm_to_mp3.
MainLoop ==
  /\ main.pc = "LOOP"
  /\ main.i < Len(args.ncm_files)
  /\ main' = [main EXCEPT !.pc = "CALL"]
  /\ conv' = ConvertCall(args.ncm_files[main.i + 1], args.output, disk.mp3)
  /\ log' = [log EXCEPT !.calls = Append(@, args.ncm_files[main.i + 1])]
  /\ UNCHANGED <<dec, args, disk>>

\* Lines 405-415: the prompt when the output exists and -f is not given;
\* quiet mode answers n for the user.
CheckExisting ==
  /\ conv.pc = "CHECK"
  /\ IF AsksBeforeOverwrite(disk.mp3[conv.mp3_file_path].exists, args.force)
       THEN IF args.quiet THEN conv' = Answered(conv, <<110>>, FALSE)
            ELSE \E response \in Responses :
                   conv' = Answered(conv, response, TRUE)
     ELSE conv' = [conv EXCEPT !.pc = "DECRYPT"]
  /\ UNCHANGED <<dec, args, main, disk, log>>

\* Line 424.
Decrypt ==
  /\ conv.pc = "DECRYPT"
  /\ dec' = Decoded[conv.ncm_file_path, args.debug]
  /\ conv' = Decrypted(conv, Decoded[conv.ncm_file_path, args.debug])
  /\ UNCHANGED <<args, main, disk, log>>

\* Line 430 (write_temp_audio, lines 337-343): a new temporary file.
WriteTemp ==
  /\ conv.pc = "TEMP"
  /\ disk' = [disk EXCEPT !.made = @ + 1, !.temp = @ \cup {disk.made + 1}]
  /\ conv' = [conv EXCEPT !.temp_file_path = disk.made + 1, !.pc = "COPY"]
  /\ UNCHANGED <<dec, args, main, log>>

\* Lines 438-440: the copy to the output path, or an OSError.
Copy ==
  /\ conv.pc = "COPY"
  /\ \E written \in BOOLEAN :
       IF written
         THEN /\ disk' = [disk EXCEPT !.mp3[conv.mp3_file_path] =
                            [exists |-> TRUE, audio |-> conv.decrypted_audio,
                             tagged |-> FALSE]]
              /\ conv' = [conv EXCEPT !.copied = TRUE, !.pc = "TAG"]
              /\ log' = [log EXCEPT !.writes = Append(@,
                           [mp3_file_path |-> conv.mp3_file_path,
                            existed |-> disk.mp3[conv.mp3_file_path].exists,
                            force_overwrite |-> args.force,
                            prompted |-> conv.prompted,
                            response |-> conv.response])]
       ELSE /\ conv' = [conv EXCEPT !.pending = "raise", !.pc = "FINALLY"]
            /\ UNCHANGED <<disk, log>>
  /\ UNCHANGED <<dec, args, main>>

\* Lines 443-448 (add_metadata, lines 345-392): the tags are saved or the
\* failure is swallowed; then return True, the finally clause still to run.
AddMetadata ==
  /\ conv.pc = "TAG"
  /\ \E saved \in BOOLEAN :
       disk' = [disk EXCEPT !.mp3[conv.mp3_file_path].tagged = saved]
  /\ conv' = [conv EXCEPT !.pending = "return", !.pc = "FINALLY"]
  /\ UNCHANGED <<dec, args, main, log>>

\* A faulty variant of Finally, for the check of the temporary files: the
\* clause raises without having removed the file.
FinallyLeavesTemp ==
  /\ conv.pc = "FINALLY"
  /\ conv' = [conv EXCEPT !.pending = "raise", !.pc = "EXCEPT"]
  /\ UNCHANGED <<dec, args, main, disk, log>>

\* Line 452: the inner os.remove deletes the temporary file and returns
\* None; the outer os.remove(None) raises TypeError, which takes the place
\* of the pending return or exception.
Finally ==
  /\ conv.pc = "FINALLY"
  /\ disk' = [disk EXCEPT !.temp = @ \ {conv.temp_file_path}]
  /\ conv' = [conv EXCEPT !.pending = "raise", !.pc = "EXCEPT"]
  /\ UNCHANGED <<dec, args, main, log>>

\* Lines 454-457.
Except ==
  /\ conv.pc = "EXCEPT"
  /\ conv' = [conv EXCEPT !.pending = "", !.result = FALSE, !.pc = "RETURN"]
  /\ UNCHANGED <<dec, args, main, disk, log>>

\* Lines 504-507: the call's result is counted.
MainCount ==
  /\ conv.pc = "RETURN"
  /\ main' = [Count(main, conv.result) EXCEPT !.i = @ + 1, !.pc = "LOOP"]
  /\ log' = [log EXCEPT !.done = Append(@, Summary(conv, args, disk.mp3, disk.temp))]
  /\ conv' = IdleConv
  /\ UNCHANGED <<dec, args, disk>>

\* Line 518.
MainExit ==
  /\ main.pc = "LOOP"
  /\ main.i = Len(args.ncm_files)
  /\ main' = [main EXCEPT !.pc = "EXIT",
                          !.exit_code = IF main.error_count = 0 THEN 0 ELSE 1]
  /\ UNCHANGED <<dec, args, conv, disk, log>>

BatchNext ==
  \/ MainLoop
  \/ CheckExisting
  \/ Decrypt
  \/ WriteTemp
  \/ Copy
  \/ AddMetadata
  \/ Finally
  \/ Except
  \/ MainCount
  \/ MainExit

SpecBatch == BatchInit /\ [][BatchNext]_vars

(***************************************************************************)
(* Properties.  The keys of the metadata object, as code points.           *)
(***************************************************************************)
\* 'musicName', 'artist', 'name', 'album' (add_metadata, lines 357-365).
MusicNameKey == <<109, 117, 115, 105, 99, 78, 97, 109, 101>>

ArtistKey == <<97, 114, 116, 105, 115, 116>>

NameKey == <<110, 97, 109, 101>>

AlbumKey == <<97, 108, 98, 117, 109>>

JsonStr(t) == [t |-> "str", v |-> t]

\* [artist['name'] for artist in meta['artist']] (line 361).
ArtistNames(artist) ==
  [i \in 1..Len(artist.v) |->
     IF JsonHas(artist.v[i], NameKey) THEN JsonGet(artist.v[i], NameKey)
     ELSE NoMeta]

\* Whether the parsed metadata carries the title, artists and album of J.
MetaMatches(meta, J) ==
  /\ JsonHas(meta, MusicNameKey) /\ JsonHas(meta, ArtistKey) /\ JsonHas(meta, AlbumKey)
  /\ JsonGet(meta, MusicNameKey) = JsonStr(J.musicName)
  /\ JsonGet(meta, ArtistKey).t = "arr"
  /\ ArtistNames(JsonGet(meta, ArtistKey))
       = [i \in 1..Len(J.artist) |-> JsonStr(J.artist[i])]
  /\ JsonGet(meta, AlbumKey) = JsonStr(J.album)

\* The number of stages with which some file of Files fails, 0 standing for
\* the reading of the file: where FAILED is entered from.
FailureStages ==
  {Len(DecryptNcm(f, FALSE).stages) :
     f \in {g \in Files : DecryptNcm(g, FALSE).pc = "FAILED"}}

\* The number of finished calls that returned True.
Successes(done) == Cardinality({k \in 1..Len(done) : done[k].result})

\* C1: for every non-empty key K that does not end in a zero byte, Key
\* Unlock on the key box made of marker || K (padded, block-encrypted,
\* masked with 0x64) yields exactly K: once the key stage has run on a
\* well-formed file, the key is the K the file was made with.
KeyRecovered ==
  (dec.file.family = "wellformed" /\ dec.key_path # "") => dec.key = dec.file.K

\* C2: a buffer that is shorter than the magic or does not start with it
\* makes decrypt_ncm fail with "Not a valid NCM file" in the magic check,
\* and no XOR-unmask, block-cipher or stream-cipher operation has been
\* performed by then; none is performed before the magic check has passed.
MagicRejected ==
  /\ dec.pc \in {"START", "MAGIC_CHECK"} => dec.ops = <<>>
  /\ (dec.file.readable /\ ~StartsWith(dec.file.content, MAGIC_HEADER)
        /\ dec.pc \notin {"START", "MAGIC_CHECK"})
       => /\ dec.pc = "FAILED"
          /\ dec.err = NotAContainer
          /\ dec.stages = <<"MAGIC_CHECK">>
          /\ dec.ops = <<>>

\* A 7-byte buffer has been rejected by the magic check.
ShortBufferRejected ==
  dec.pc = "FAILED" /\ dec.err = NotAContainer /\ Len(dec.data) = 7

\* C3: once a declared length (the key-box length N1 or the cover length
\* N3) was found to exceed the bytes left in the buffer, decrypt_ncm has
\* failed: it neither goes on with the shortened region nor ends in DONE.
TruncationRejected ==
  dec.truncated \cap {"N1", "N3"} # {} => dec.pc = "FAILED"

\* C4: the stages entered are always an initial part of MAGIC_CHECK,
\* KEY_BOX, META_BOX, COVER_SKIP, AUDIO_DECRYPT, the stage to run next is the
\* one after those entered, DONE comes only after all five, nothing runs
\* after DONE or FAILED, and FAILED is entered from the reading of the file
\* and from each of the five stages.
StagesInOrder ==
  /\ \E n \in 0..Len(StageOrder) : dec.stages = SubSeq(StageOrder, 1, n)
  /\ \A n \in 1..Len(StageOrder) :
       dec.pc = StageOrder[n] => Len(dec.stages) = n - 1
  /\ dec.pc = "START" => dec.stages = <<>>
  /\ dec.pc = "DONE" => dec.stages = StageOrder
  /\ dec.pc \in Terminal => ~ENABLED Next
  /\ FailureStages = 0..Len(StageOrder)

\* A run has failed in the last stage, all five stages entered in order.
FailedInLastStage ==
  dec.pc = "FAILED" /\ dec.stages = StageOrder /\ dec.err = ARC4KeyError

\* C5: from every state of a call of decrypt_ncm the stages that remain run
\* to DONE or FAILED, and the call ends either with the (audio, metadata)
\* pair and no error, or with the one exception of lines 334-335 that
\* carries the cause; no other exception leaves it.
DecodeTerminates ==
  /\ RunDecode(dec).pc \in Terminal
  /\ dec.pc = "FAILED" => dec.raised = "Exception" /\ dec.err # ""
  /\ dec.pc = "DONE" => dec.raised = "" /\ dec.err = ""

\* The file of test_debug_mode (magic, two zero lengths) has been refused.
ZeroBoxesRefused ==
  dec.file = ZeroBoxes /\ dec.pc = "FAILED" /\ dec.err = InvalidKeyHeader

\* C6: main's loop hands the files to convert_ncm_to_mp3 one by one in the
\* order of ncm_files, whatever the earlier calls returned; every finished
\* call is counted as a success or as an error according to its result, so
\* success_count + error_count is the number of finished calls, and at the
\* exit the number of files.
BatchCounted ==
  /\ log.calls = SubSeq(args.ncm_files, 1, Len(log.calls))
  /\ Len(log.calls) = main.i + (IF main.pc = "CALL" THEN 1 ELSE 0)
  /\ Len(log.done) = main.i
  /\ \A k \in 1..Len(log.done) : log.done[k].ncm_file_path = args.ncm_files[k]
  /\ main.success_count = Successes(log.done)
  /\ main.error_count = Len(log.done) - Successes(log.done)
  /\ main.success_count + main.error_count = main.i
  /\ main.pc = "EXIT"
       => main.success_count + main.error_count = Len(args.ncm_files)

\* A batch of two has ended whose first file failed to decrypt and whose
\* second file was decrypted.
BatchSurvivedFailure ==
  /\ main.pc = "EXIT"
  /\ Len(log.done) = 2
  /\ log.done[1].decrypt_called /\ ~log.done[1].decrypt_ok
  /\ log.done[2].decrypt_ok

\* C7: a call of convert_ncm_to_mp3 with force_overwrite set, on a file
\* that decrypt_ncm decrypted and whose copy to the output path went
\* through, returned True and left the output file in place.
ConvertSucceeds ==
  \A k \in 1..Len(log.done) :
    (log.done[k].decrypt_ok /\ log.done[k].force_overwrite /\ log.done[k].copied)
      => log.done[k].result /\ log.done[k].after.exists

\* C8: every write to an output path that existed was made under
\* force_overwrite or after the prompt was answered y or Y; and a call in
\* quiet mode without force_overwrite whose output path existed did not
\* prompt, did not call decrypt_ncm, left the file as it was and returned
\* False.
OverwriteGuarded ==
  /\ \A k \in 1..Len(log.writes) :
       log.writes[k].existed
         => \/ log.writes[k].force_overwrite
            \/ log.writes[k].prompted /\ Lower(log.writes[k].response) = <<121>>
  /\ \A k \in 1..Len(log.done) :
       (log.done[k].quiet /\ ~log.done[k].force_overwrite /\ log.done[k].existed)
         => /\ ~log.done[k].prompted
            /\ ~log.done[k].decrypt_called
            /\ ~log.done[k].copied
            /\ log.done[k].after = log.done[k].before
            /\ ~log.done[k].result

\* An existing output was overwritten after the prompt was answered Y.
OverwrittenOnYes ==
  \E k \in 1..Len(log.writes) :
    /\ log.writes[k].existed /\ ~log.writes[k].force_overwrite
    /\ log.writes[k].response = <<89>>

\* C9: once the metadata stage has run on a well-formed file made with the
\* metadata J, the parsed record has J's musicName, J's artist names in
\* order, and J's album.
MetadataRoundTrip ==
  (dec.file.family = "wellformed" /\ Len(dec.stages) >= 3)
    => MetaMatches(dec.meta, dec.file.J)

\* The metadata of a file with two artists, one name with a non-ASCII
\* letter and a backslash, has been parsed.
TwoArtistsParsed ==
  /\ dec.file.family = "wellformed"
  /\ dec.file.J.artist = << <<65>>, <<233, 92>> >>
  /\ dec.pc = "COVER_SKIP"
  /\ dec.json_called

\* C10: the audio decrypt_ncm returns is as long as the payload it
\* decrypted, and the stream cipher applied to it again under the same key
\* gives the payload back.
AudioSelfInverse ==
  dec.pc = "DONE"
    => /\ Len(dec.decrypted_audio) = Len(dec.audio_data)
       /\ ARC4Decrypt(dec.key, dec.decrypted_audio).val = dec.audio_data

\* C11: a failed call of decrypt_ncm leaves with the error of the stage that
\* failed, passed through as it was raised: what leaves the call is the
\* stage's own error and not another one put in its place.
ErrorKindPassedThrough ==
  dec.pc = "FAILED" => dec.raised = dec.err

\* The little-endian u32 that data holds at offset at.
LengthAt(data, at) == UnpackU32(Slice(data, at, at + 4)).val

\* The bytes of data from offset start to its end.
BytesFrom(data, start) == [i \in 1..(Len(data) - start) |-> data[start + i]]

\* The offset at which the audio starts, N1 and N2 being the lengths of the
\* key box and of the metadata box: 8+4+N1+4+N2+4+5+4+N3, N3 read at
\* 16+N1+N2+9.
AudioStart(data, n1, n2) ==
  8 + 4 + n1 + 4 + n2 + 4 + 5 + 4 + LengthAt(data, 16 + n1 + n2 + 9)

\* C12: in every call of decrypt_ncm that ended in DONE, the bytes handed to
\* the stream cipher are the bytes of the file from offset
\* 8+4+N1+4+N2+4+5+4+N3 to its end, N1 read at offset 8, N2 at 12+N1 and N3
\* at 16+N1+N2+9; and the offset the call ended with is that one.
AudioRegion ==
  dec.pc = "DONE"
    => /\ dec.audio_data
            = BytesFrom(dec.data,
                AudioStart(dec.data, LengthAt(dec.data, 8),
                           LengthAt(dec.data, 12 + LengthAt(dec.data, 8))))
       /\ dec.offset
            = AudioStart(dec.data, LengthAt(dec.data, 8),
                         LengthAt(dec.data, 12 + LengthAt(dec.data, 8)))

\* A call has ended in DONE on a file with a cover of two bytes and four
\* bytes of audio after it.
AudioAfterCover ==
  /\ dec.pc = "DONE"
  /\ LengthAt(dec.data, dec.offset - 6) = 2
  /\ dec.audio_data = SubSeq(dec.data, Len(dec.data) - 3, Len(dec.data))
  /\ Len(dec.audio_data) = 4

\* The key box of the file, unmasked: what the padding candidates are made
\* from (N1 at offset 8, the box after it).
KeyBoxBytes(data) ==
  XorMask(Slice(data, 12, 12 + LengthAt(data, 8)), KEY_XOR_KEY)

\* The acceptance test as specified: the marker occurs in the plaintext, or
\* the plaintext without its leading zero bytes has at least 16 bytes.
AcceptedAsSpecified(plain) ==
  Contains(plain, HEADER) \/ Len(LStripZero(plain)) >= 16

\* The first of the candidates (a), (b), (c), from i on, that is block
\* aligned and whose plaintext passes the test as specified; 0 if none.
RECURSIVE FirstAccepted(_, _)
FirstAccepted(i, encrypted_key) ==
  IF i > 3 THEN 0
  ELSE IF Len(PadStrategy(i, encrypted_key)) % BlockSize = 0
          /\ AcceptedAsSpecified(AESDecrypt(PadStrategy(i, encrypted_key)).val)
         THEN i
       ELSE FirstAccepted(i + 1, encrypted_key)

\* The plaintext the marker search ran on is that of candidate first, and
\* there is such a candidate.
PlaintextOfCandidate(encrypted_key, first) ==
  /\ first # 0
  /\ DecryptKeyBox(encrypted_key).key
       = AESDecrypt(PadStrategy(first, encrypted_key)).val

\* C13: whenever the marker search of Key Unlock has run, the plaintext it
\* ran on is that of the first of the candidates (a) standard padding,
\* (b) zero padding, (c) no padding whose plaintext holds the marker or has,
\* without its leading zero bytes, at least 16 bytes; the plaintext of a
\* candidate that passes neither test is never searched.
KeyCandidateChosen ==
  dec.key_path # ""
    => PlaintextOfCandidate(KeyBoxBytes(dec.data),
                            FirstAccepted(1, KeyBoxBytes(dec.data)))

\* The plaintext of the file's key box without its leading zero bytes: what
\* the marker search runs on.
ZeroStripped(data) == LStripZero(DecryptKeyBox(KeyBoxBytes(data)).key)

\* The marker occurs at no offset of plain.
MarkerAbsent(plain) ==
  \A i \in 0..(Len(plain) - Len(HEADER)) :
    SubSeq(plain, i + 1, i + Len(HEADER)) # HEADER

\* The outcome d of the key stage on the zero-stripped plaintext plain.
FallbackRule(d, plain) ==
  /\ d.err = InvalidKeyHeader <=> (MarkerAbsent(plain) /\ Len(plain) < 16)
  /\ (MarkerAbsent(plain) /\ Len(plain) >= 16)
       => /\ d.err # InvalidKeyHeader
          /\ d.key_path = "fallback"
          /\ SearchHeader(plain).key = plain
          /\ d.key = RStripZero(plain)

\* C14: once the key stage has run, it has failed with "Invalid key header"
\* exactly if the marker occurs at no offset of the zero-stripped plaintext
\* and that plaintext has fewer than 16 bytes; with the marker absent and at
\* least 16 bytes, it has not failed so and the whole zero-stripped plaintext
\* was taken as the key (line 219 then strips its trailing zero bytes).
MinimumLengthFallback ==
  dec.key_path # "" => FallbackRule(dec, ZeroStripped(dec.data))

\* The key stage has passed on a plaintext of 32 bytes without the marker,
\* and the 32 bytes are the key.
FallbackKeyTaken ==
  /\ dec.pc = "META_BOX"
  /\ dec.key_path = "fallback"
  /\ dec.key = Repeat(9, 32)

\* The outcome d of a call whose marker search gave located.
EmptyKeyRule(d, located) ==
  (located.ok /\ RStripZero(located.key) = <<>>)
    => d.pc = "FAILED" /\ d.err = EmptyKey /\ d.stages = <<"MAGIC_CHECK", "KEY_BOX">>

\* C15: a key that is empty once its trailing zero bytes are stripped makes
\* the key stage fail with "Decrypted key is empty"; so in every state after
\* a passed key stage, the audio stage included, the key has at least one
\* byte, and the stream cipher refuses a key only for being longer than 256
\* bytes, never for being empty.
EmptyKeyRefused ==
  /\ dec.key_path # ""
       => EmptyKeyRule(dec, LocateHeader(DecryptKeyBox(KeyBoxBytes(dec.data)).key))
  /\ Len(dec.stages) >= 3 => Len(dec.key) >= 1
  /\ dec.pc \in {"META_BOX", "COVER_SKIP", "AUDIO_DECRYPT", "DONE"}
       => Len(dec.key) >= 1
  /\ dec.err = ARC4KeyError => Len(dec.key) > ARC4MaxKey

\* The key stage has failed with the empty key: the marker was found and
\* nothing but zero bytes came after it.
EmptyKeyRaised ==
  /\ dec.pc = "FAILED"
  /\ dec.err = EmptyKey
  /\ dec.key_path = "scan"
  /\ dec.stages = <<"MAGIC_CHECK", "KEY_BOX">>

\* The metadata box of the file (N2 after the key box, the box after it).
MetaBoxBytes(data, at) == Slice(data, at + 4, at + 4 + LengthAt(data, at))

\* The decrypted plaintext of the file's metadata box, before any padding
\* is removed.
MetaPlaintext(data) ==
  DecryptMeta(DecodeMetaBase64(
    XorMask(MetaBoxBytes(data, 12 + LengthAt(data, 8)), META_XOR_KEY)).val)

\* The last offset of plain that holds '}', counted from 1; 0 if none.
LastBrace(plain) ==
  IF \E i \in 1..Len(plain) : plain[i] = 125
  THEN CHOOSE i \in 1..Len(plain) :
         plain[i] = 125 /\ \A j \in (i + 1)..Len(plain) : plain[j] # 125
  ELSE 0

\* The outcome d of the metadata stage on the decrypted plaintext plain.
PaddingRecovery(d, plain) ==
  /\ (~Unpad(plain).ok /\ LastBrace(plain) # 0)
       => /\ d.json_called
          /\ Utf8Encode(d.meta_text) = SubSeq(plain, 1, LastBrace(plain))
  /\ (~Unpad(plain).ok /\ LastBrace(plain) = 0)
       => d.pc = "FAILED" /\ d.err = PaddingError /\ ~d.json_called
  /\ Unpad(plain).ok => ~d.meta_manual

\* C16: once the metadata stage has decrypted the box, if the padding could
\* not be removed and the plaintext holds a '}', the text handed to
\* json.loads is the plaintext up to its last '}'; if it holds none, the
\* call has failed with the padding error and json.loads was not called;
\* and if the padding could be removed the heuristic was not applied.
PaddingHeuristic ==
  (\E i \in 1..Len(dec.ops) : dec.ops[i] = "aes_meta")
    => PaddingRecovery(dec, MetaPlaintext(dec.data))

\* Two finished calls have the same result: both failed, or both returned
\* the same audio and the same metadata.
SameOutcome(a, b) ==
  /\ a.pc = b.pc
  /\ a.decrypted_audio = b.decrypted_audio
  /\ a.meta = b.meta

\* C17: a finished call of decrypt_ncm has the result the call on the same
\* file with the other value of debug has: both fail, or both return the
\* same audio bytes and the same metadata.
DebugTransparent ==
  dec.pc \in Terminal => SameOutcome(dec, DecryptNcm(dec.file, ~dec.debug))

\* The marker search with nothing but the check at offset 0, the byte-wise
\* scan and the minimum-length fallback.
ReducedSearch(key) ==
  IF SubSeq(key, 1, Min(Len(HEADER), Len(key))) = HEADER
    THEN [ok |-> TRUE, key |-> key, path |-> "at_start"]
  ELSE IF ~MarkerAbsent(key)
    THEN [ok |-> TRUE,
          key |-> BytesFrom(key,
                    Len(HEADER) - 1
                      + CHOOSE i \in 1..Len(key) :
                          /\ SubSeq(key, i, i + Len(HEADER) - 1) = HEADER
                          /\ MarkerAbsent(SubSeq(key, 1, i + Len(HEADER) - 2))),
          path |-> "scan"]
  ELSE IF Len(key) >= 16
    THEN [ok |-> TRUE, key |-> key, path |-> "fallback"]
  ELSE [ok |-> FALSE, key |-> key, path |-> "none"]

\* The outcome d of the key stage on the zero-stripped plaintext plain.
LaterSearchesIdle(d, plain) ==
  /\ d.key_path \notin {"string", "null_terminated", "padded"}
  /\ MarkerAbsent(plain)
       => /\ Find(Latin1Decode(plain), HeaderText) = -1
          /\ ~Contains(plain, HEADER \o <<0>>)
          /\ PaddedHeaderSearch(plain) = -1
  /\ SearchHeader(plain) = ReducedSearch(plain)
  /\ d.key_path = ReducedSearch(plain).path
  /\ d.pc # "FAILED" => d.key = RStripZero(ReducedSearch(plain).key)

\* C18: once the key stage has run, the key was not produced by the string
\* search, the search of the marker with a zero byte after it, or the search
\* of the marker with zero bytes before it; where the byte-wise scan finds
\* no marker none of the three finds one; and the key or the failure is the
\* one the check at offset 0, the byte-wise scan and the minimum-length
\* fallback alone would give.
LaterSearchesNeverHit ==
  dec.key_path # "" => LaterSearchesIdle(dec, ZeroStripped(dec.data))

\* The key stage has passed on a plaintext that holds the marker in capitals
\* and nowhere as it is: no search found it, the fallback took the key.
CapitalMarkerNotFound ==
  /\ dec.pc = "META_BOX"
  /\ dec.key_path = "fallback"
  /\ Len(ZeroStripped(dec.data)) >= 18
  /\ Lower(SubSeq(ZeroStripped(dec.data), 2, 18)) = HEADER

\* C19: whenever the key stage has passed on the minimum-length fallback,
\* the marker not having been located, the key it left for the stream
\* cipher, trailing zero bytes stripped, has at least 16 bytes.
FallbackKeyLongEnough ==
  (dec.key_path = "fallback" /\ (dec.pc = "META_BOX" \/ Len(dec.stages) >= 3))
    => Len(dec.key) >= 16

====
